---- MODULE Spec2Model ----
(***************************************************************************)
(* Telemetry and login-throttle layer of the EduFlow API:                  *)
(*   - routes/public.js     login attempt guard and POST /login handler    *)
(*   - utils/logger.js      redaction and the category logger              *)
(*   - middlewares/logging.js, server.js   HTTP instrumentation            *)
(* Time is counted in ticks; MINUTE ticks make one minute.                 *)
(***************************************************************************)
EXTENDS Integers, Sequences, FiniteSets, TLC

\* ------------------------------------------------------------------ bounds
MaxTime == 11
NumSlots == 2
MaxCtxKeys == 2
MaxRecords == 3

\* --------------------------------------------------------------- constants
MINUTE == 2
MAX_LOGIN_ATTEMPTS == 5
LOGIN_BLOCK_TIME == 5 * MINUTE

IPs == {"203.0.113.9"}
Slots == 1..NumSlots
Sinks == {"general", "errors", "warnings", "auth", "user-actions", "http",
          "database", "debug"}

VARIABLES
  now,                  \* Date.now(), in ticks
  failedLoginAttempts,  \* the Map ip -> {count, lastAttempt}
  pc,                   \* position of each in-flight POST /login request
  reqIp,                \* req.ip of each in-flight request
  last,                 \* the latest handler step: who ran, what it called and sent
  events,               \* logger calls made by the latest handler step
  failing,              \* durable sinks whose appendFileSync currently throws
  debugEnv,             \* process.env.DEBUG
  wall,                 \* the wall clock read by new Date(), an index of Instants
  lcall,                \* the latest call into utils/logger.js and its arguments
  lout,                 \* what that call wrote, returned or threw
  hpc,                  \* position of the exchange passing through server.js
  hreq,                 \* that request, as the middleware chain sees it
  hres,                 \* its response object
  htrace,               \* what has been done for it so far, in order
  mw,                   \* the latest run of a hook (errorLoggingMiddleware, auth)
  hlog,                 \* what each logger.http call of the replaced res.json wrote
  disk,                 \* the content of each file under logs/
  called                \* the appends made so far, in the order of their calls

loginVars == <<now, failedLoginAttempts, pc, reqIp, last, events>>
loggerVars == <<debugEnv, wall, lcall, lout, disk, called>>
httpVars == <<hpc, hreq, hres, htrace, mw, hlog>>
vars == <<now, failedLoginAttempts, pc, reqIp, last, events, failing,
          debugEnv, wall, lcall, lout, hpc, hreq, hres, htrace, mw, hlog,
          disk, called>>

\* fs.appendFileSync throws for the sinks that are failing
Throws(sink) == sink \in failing

\* ============================================================ values
\* JavaScript values handed to the logger: t is the type tag, s the text of
\* a string, number or boolean, kv the entries of an object or array in
\* insertion order.
Undefined == [t |-> "undef", s |-> "", kv |-> << >>]
Null == [t |-> "null", s |-> "", kv |-> << >>]
Str(x) == [t |-> "str", s |-> x, kv |-> << >>]
Num(x) == [t |-> "num", s |-> x, kv |-> << >>]
Bool(x) == [t |-> "bool", s |-> x, kv |-> << >>]
Obj(entries) == [t |-> "obj", s |-> "", kv |-> entries]
Arr(entries) == [t |-> "arr", s |-> "", kv |-> entries]
KV(k, v) == [k |-> k, val |-> v]

\* String.prototype.toLowerCase
UpperToLower ==
  [A |-> "a", B |-> "b", C |-> "c", D |-> "d", E |-> "e", F |-> "f", G |-> "g",
   H |-> "h", I |-> "i", J |-> "j", K |-> "k", L |-> "l", M |-> "m", N |-> "n",
   O |-> "o", P |-> "p", Q |-> "q", R |-> "r", S |-> "s", T |-> "t", U |-> "u",
   V |-> "v", W |-> "w", X |-> "x", Y |-> "y", Z |-> "z"]

LowerChar(c) == IF c \in DOMAIN UpperToLower THEN UpperToLower[c] ELSE c

RECURSIVE toLowerCase(_)
toLowerCase(str) ==
  IF Len(str) = 0 THEN ""
  ELSE LowerChar(SubSeq(str, 1, 1)) \o toLowerCase(SubSeq(str, 2, Len(str)))

\* String.prototype.includes
includes(str, sub) ==
  \E i \in 1..(Len(str) - Len(sub) + 1) : SubSeq(str, i, i + Len(sub) - 1) = sub

\* !data
Falsy(d) ==
  \/ d.t \in {"undef", "null"}
  \/ d.t = "str" /\ d.s = ""
  \/ d.t = "num" /\ d.s = "0"
  \/ d.t = "bool" /\ d.s = "false"

RECURSIVE JoinWith(_, _)
JoinWith(parts, sep) ==
  IF Len(parts) = 0 THEN ""
  ELSE IF Len(parts) = 1 THEN parts[1]
  ELSE parts[1] \o sep \o JoinWith(Tail(parts), sep)

\* JSON.stringify: object entries whose value is undefined are left out,
\* undefined array elements are written as null
RECURSIVE JSONstringify(_)
JSONstringify(d) ==
  CASE d.t = "str" -> "\"" \o d.s \o "\""
    [] d.t \in {"num", "bool"} -> d.s
    [] d.t = "null" -> "null"
    [] d.t = "obj" ->
         LET kept == SelectSeq(d.kv, LAMBDA e : e.val.t # "undef")
         IN "{" \o JoinWith([i \in 1..Len(kept) |->
                   "\"" \o kept[i].k \o "\":" \o JSONstringify(kept[i].val)], ",") \o "}"
    [] d.t = "arr" ->
         "[" \o JoinWith([i \in 1..Len(d.kv) |->
                   IF d.kv[i].val.t = "undef" THEN "null"
                   ELSE JSONstringify(d.kv[i].val)], ",") \o "]"
    [] OTHER -> "undefined"

\* ====================================================== utils/logger.js
REDACTED == "***REDACTED***"

sensitiveKeys ==
  <<"password", "token", "authorization", "secret", "api_key", "creditCard",
    "cpf", "phone">>

\* sensitiveKeys.some((sensitive) => lowerKey.includes(sensitive))
IsSensitiveKey(key) ==
  LET lowerKey == toLowerCase(key)
  IN \E i \in 1..Len(sensitiveKeys) : includes(lowerKey, sensitiveKeys[i])

\* sanitize that leaves the sensitive entries out of its result
sanitizeSensitiveData_dropsEntries(data) ==
  IF Falsy(data) THEN data
  ELSE IF data.t \in {"obj", "arr"}
    THEN Obj(SelectSeq(data.kv, LAMBDA e : ~IsSensitiveKey(e.k)))
    ELSE data

\* sanitizeSensitiveData: falsy values and non-objects are returned as they
\* are; objects (and arrays, spread into an object) get a shallow copy with
\* the values of sensitive keys replaced
sanitizeSensitiveData(data) ==
  IF Falsy(data) THEN data
  ELSE IF data.t \in {"obj", "arr"}
    THEN Obj([i \in 1..Len(data.kv) |->
                IF IsSensitiveKey(data.kv[i].k)
                  THEN KV(data.kv[i].k, Str(REDACTED))
                  ELSE data.kv[i]])
    ELSE data

\* the argument as the caller finds it after sanitizeSensitiveData has
\* returned: the replacements are written to the copy { ...data }
ArgumentAfterSanitize(data) == data

colors ==
  [reset |-> "ESC[0m", red |-> "ESC[31m", yellow |-> "ESC[33m",
   green |-> "ESC[32m", blue |-> "ESC[34m", gray |-> "ESC[90m"]

\* new Date().toISOString() at the instants the model's wall clock takes
Instants == <<"2026-02-07T23:59:59.999Z", "2026-02-08T00:00:00.000Z">>

toISOString(w) == Instants[w]

\* getLogFileName: `${type}-${new Date().toISOString().split('T')[0]}.log`
getLogFileName(type, w) == "logs/" \o type \o "-" \o SubSeq(toISOString(w), 1, 10) \o ".log"

\* Object.keys(x) throws a TypeError for null and undefined
ObjectKeysThrows(x) == x.t \in {"null", "undef"}

\* Object.keys(x).length
ObjectKeysLength(x) ==
  CASE x.t \in {"obj", "arr"} -> Len(x.kv)
    [] x.t = "str" -> Len(x.s)
    [] OTHER -> 0

\* a default parameter value applies when the argument is undefined
Default(arg, dflt) == IF arg.t = "undef" THEN dflt ELSE arg

\* what a logger call did: console writes, file appends, and how it ended
Skipped == [console |-> << >>, appends |-> << >>, threw |-> "none"]
TypeErrorThrown == [console |-> << >>, appends |-> << >>, threw |-> "TypeError"]

\* the write that keeps a failed append to itself
WriteOut_catchesAppend(color, logMessage, type, w) ==
  IF Throws(type)
    THEN [console |-> <<color \o logMessage \o colors.reset>>,
          appends |-> << >>, threw |-> "none"]
    ELSE [console |-> <<color \o logMessage \o colors.reset>>,
          appends |-> <<[file |-> getLogFileName(type, w),
                         text |-> logMessage \o "\n"]>>,
          threw |-> "none"]

\* console write, then writeToFile(logMessage, type); w is the clock read
\* by getLogFileName
WriteOut(color, logMessage, type, w) ==
  IF Throws(type)
    THEN [console |-> <<color \o logMessage \o colors.reset>>,
          appends |-> << >>, threw |-> "appendFileSync"]
    ELSE [console |-> <<color \o logMessage \o colors.reset>>,
          appends |-> <<[file |-> getLogFileName(type, w),
                         text |-> logMessage \o "\n"]>>,
          threw |-> "none"]

\* Object.keys(x).length > 0 ? label + JSON.stringify(x) : ''
Segment(label, x) ==
  IF ObjectKeysLength(x) > 0 THEN label \o JSONstringify(x) ELSE ""

\* every operation: ts is the clock read by getFormattedDate, w the later
\* read by getLogFileName
logger_error(ts, w, message, error, context0) ==
  LET context == Default(context0, Obj(<< >>))
      sanitizedContext == sanitizeSensitiveData(context)
      errorDetails == IF Falsy(error) THEN "" ELSE "\n  Stack: " \o error.s
  IN IF ObjectKeysThrows(sanitizedContext) THEN TypeErrorThrown
     ELSE WriteOut(colors.red,
            "[" \o toISOString(ts) \o "] [ERROR] " \o message \o " "
              \o Segment("\n  Context: ", sanitizedContext) \o errorDetails,
            "errors", w)

logger_warn(ts, w, message, context0) ==
  LET context == Default(context0, Obj(<< >>))
      sanitizedContext == sanitizeSensitiveData(context)
  IN IF ObjectKeysThrows(sanitizedContext) THEN TypeErrorThrown
     ELSE WriteOut(colors.yellow,
            "[" \o toISOString(ts) \o "] [WARN] " \o message \o " "
              \o Segment("\n  Context: ", sanitizedContext),
            "warnings", w)

logger_info(ts, w, message, context0) ==
  LET context == Default(context0, Obj(<< >>))
      sanitizedContext == sanitizeSensitiveData(context)
  IN IF ObjectKeysThrows(sanitizedContext) THEN TypeErrorThrown
     ELSE WriteOut(colors.blue,
            "[" \o toISOString(ts) \o "] [INFO] " \o message \o " "
              \o Segment("\n  Context: ", sanitizedContext),
            "general", w)

\* the success operation appending to a file of its own
logger_success_ownFile(ts, w, message, context0) ==
  LET context == Default(context0, Obj(<< >>))
      sanitizedContext == sanitizeSensitiveData(context)
  IN IF ObjectKeysThrows(sanitizedContext) THEN TypeErrorThrown
     ELSE WriteOut(colors.green,
            "[" \o toISOString(ts) \o "] [SUCCESS] " \o message \o " "
              \o Segment("\n  Context: ", sanitizedContext),
            "success", w)

logger_success(ts, w, message, context0) ==
  LET context == Default(context0, Obj(<< >>))
      sanitizedContext == sanitizeSensitiveData(context)
  IN IF ObjectKeysThrows(sanitizedContext) THEN TypeErrorThrown
     ELSE WriteOut(colors.green,
            "[" \o toISOString(ts) \o "] [SUCCESS] " \o message \o " "
              \o Segment("\n  Context: ", sanitizedContext),
            "general", w)

\* the debug operation that formats its data argument as it was given
logger_debug_rawData(env, ts, w, message, data0, context0) ==
  LET context == Default(context0, Obj(<< >>))
      data == Default(data0, Null)
      sanitizedContext == sanitizeSensitiveData(context)
  IN IF env # "true" THEN Skipped
     ELSE IF ObjectKeysThrows(sanitizedContext) THEN TypeErrorThrown
     ELSE WriteOut(colors.gray,
            "[" \o toISOString(ts) \o "] [DEBUG] " \o message \o " "
              \o (IF Falsy(data) THEN ""
                  ELSE "\n  Data: " \o JSONstringify(data)) \o " "
              \o Segment("\n  Context: ", sanitizedContext),
            "debug", w)

logger_debug(env, ts, w, message, data0, context0) ==
  LET context == Default(context0, Obj(<< >>))
      data == Default(data0, Null)
      sanitizedContext == sanitizeSensitiveData(context)
      sanitizedData == sanitizeSensitiveData(data)
  IN IF env # "true" THEN Skipped
     ELSE IF ObjectKeysThrows(sanitizedContext) THEN TypeErrorThrown
     ELSE WriteOut(colors.gray,
            "[" \o toISOString(ts) \o "] [DEBUG] " \o message \o " "
              \o (IF Falsy(sanitizedData) THEN ""
                  ELSE "\n  Data: " \o JSONstringify(sanitizedData)) \o " "
              \o Segment("\n  Context: ", sanitizedContext),
            "debug", w)

logger_userAction(ts, w, action, userId, details0) ==
  LET details == Default(details0, Obj(<< >>))
      sanitizedDetails == sanitizeSensitiveData(details)
  IN IF ObjectKeysThrows(sanitizedDetails) THEN TypeErrorThrown
     ELSE WriteOut(colors.green,
            "[" \o toISOString(ts) \o "] [USER_ACTION] User: " \o userId
              \o " | Action: " \o action \o " "
              \o Segment("| Details: ", sanitizedDetails),
            "user-actions", w)

\* statusCode >= 400 ? red : statusCode >= 300 ? yellow : green
StatusColor(statusCode) ==
  IF statusCode >= 400 THEN colors.red
  ELSE IF statusCode >= 300 THEN colors.yellow ELSE colors.green

\* the decimal text of the status codes and durations the model uses
NumText(n) ==
  CASE n = 200 -> "200" [] n = 201 -> "201" [] n = 302 -> "302" [] n = 400 -> "400"
    [] n = 401 -> "401" [] n = 404 -> "404" [] n = 429 -> "429" [] n = 500 -> "500"
    [] n \in 0..9 -> SubSeq("0123456789", n + 1, n + 1)
    [] OTHER -> "1" \o SubSeq("0123456789", (n % 10) + 1, (n % 10) + 1)

logger_http(ts, w, method, path, statusCode, duration, userId, details0) ==
  LET details == Default(details0, Obj(<< >>))
      sanitizedDetails == sanitizeSensitiveData(details)
  IN IF ObjectKeysThrows(sanitizedDetails) THEN TypeErrorThrown
     ELSE WriteOut(StatusColor(statusCode),
            "[" \o toISOString(ts) \o "] [HTTP] " \o method \o " " \o path
              \o " | Status: " \o NumText(statusCode)
              \o " | Duration: " \o NumText(duration) \o "ms | User: " \o userId \o " "
              \o Segment("| Details: ", sanitizedDetails),
            "http", w)

logger_auth(ts, w, action, identifier, result, details0) ==
  LET details == Default(details0, Obj(<< >>))
      sanitizedDetails == sanitizeSensitiveData(details)
  IN IF ObjectKeysThrows(sanitizedDetails) THEN TypeErrorThrown
     ELSE WriteOut(IF result = "success" THEN colors.green ELSE colors.red,
            "[" \o toISOString(ts) \o "] [AUTH] Action: " \o action
              \o " | Identifier: " \o identifier \o " | Result: " \o result \o " "
              \o Segment("| Details: ", sanitizedDetails),
            "auth", w)

logger_database(ts, w, operation, entity, status, details0) ==
  LET details == Default(details0, Obj(<< >>))
      sanitizedDetails == sanitizeSensitiveData(details)
  IN IF ObjectKeysThrows(sanitizedDetails) THEN TypeErrorThrown
     ELSE WriteOut(IF status = "success" THEN colors.green ELSE colors.red,
            "[" \o toISOString(ts) \o "] [DATABASE] Operation: " \o operation
              \o " | Entity: " \o entity \o " | Status: " \o status \o " "
              \o Segment("| Details: ", sanitizedDetails),
            "database", w)

\* ------------------------------------------------ calls into the logger
LoggerOps ==
  {"error", "warn", "info", "success", "debug", "userAction", "http", "auth",
   "database"}

NoCall == [op |-> "none", context |-> Undefined, data |-> Undefined, env |-> "unset"]
NoOutput ==
  [console |-> << >>, appends |-> << >>, threw |-> "none", value |-> Undefined,
   arg |-> Undefined]

\* context entries the call sites pass, each key with its own value
CtxEntries ==
  << KV("email", Str("a@b.com")),
     KV("password", Str("hunter2")),
     KV("userPassword", Str("s3nha")),
     KV("API_KEY", Str("k-123")),
     KV("creditCard", Str("4111-1111")),
     KV("CreditCardNumber", Str("5500-0000")),
     KV("Authorization", Str("Bearer abc")),
     KV("resetToken", Str("tok-9f")),
     KV("cpf", Str("123.456.789-00")),
     KV("Phone", Str("555-0100")),
     KV("clientSecret", Str("shh")),
     KV("params", Obj(<<KV("password", Str("nested-pw"))>>)) >>

\* arguments that are not mappings with entries
NonMappings ==
  {Null, Obj(<< >>), Str(""), Str("plain text"), Num("0"), Num("42"),
   Bool("true"), Bool("false"), Arr(<<KV("0", Str("a")), KV("1", Str("b"))>>)}

\* the data argument of logger.debug
DebugData ==
  {Str("plain text"),
   Obj(<<KV("password", Str("hunter2")), KV("email", Str("a@b.com"))>>)}

\* one call of a logger operation with the given context / details
LoggerResult(op, env, ts, w, ctx, data) ==
  CASE op = "error" -> logger_error(ts, w, "Falha", Str("Error: boom at x.js:1"), ctx)
    [] op = "warn" -> logger_warn(ts, w, "Aviso", ctx)
    [] op = "info" -> logger_info(ts, w, "Info", ctx)
    [] op = "success" -> logger_success(ts, w, "Feito", ctx)
    [] op = "debug" -> logger_debug(env, ts, w, "Depurando", data, ctx)
    [] op = "userAction" -> logger_userAction(ts, w, "login_iniciado", "anonymous", ctx)
    [] op = "http" -> logger_http(ts, w, "GET", "/x", 404, 12, "anonymous", ctx)
    [] op = "auth" -> logger_auth(ts, w, "token_verification", "unknown", "failure", ctx)
    [] OTHER -> logger_database(ts, w, "create", "aluno", "success", ctx)

\* A call site builds the context it is about to log: entry i of
\* CtxEntries is added to the object under construction.
Prepare(i) ==
  /\ lcall.op = "none"
  /\ lcall.context.t \in {"undef", "obj"}
  /\ Len(lcall.context.kv) < MaxCtxKeys
  /\ lcall.context.t = "undef" \/ Len(lcall.context.kv) > 0
  /\ \A j \in 1..Len(lcall.context.kv) :
       \E h \in 1..(i - 1) : CtxEntries[h].k = lcall.context.kv[j].k
  /\ lcall' = [lcall EXCEPT !.context = Obj(Append(lcall.context.kv, CtxEntries[i]))]
  /\ UNCHANGED <<loginVars, failing, httpVars, disk, called, debugEnv, wall, lout>>

\* the call site passes something that is not a mapping with entries
PrepareValue(d) ==
  /\ lcall.op = "none"
  /\ lcall.context.t = "undef"
  /\ lcall' = [lcall EXCEPT !.context = d]
  /\ UNCHANGED <<loginVars, failing, httpVars, disk, called, debugEnv, wall, lout>>

\* the call site has a data argument for logger.debug
PrepareData(d) ==
  /\ lcall.op = "none"
  /\ lcall.data.t = "undef"
  /\ lcall' = [lcall EXCEPT !.data = d]
  /\ UNCHANGED <<loginVars, failing, httpVars, disk, called, debugEnv, wall, lout>>

\* The call site invokes logger[op] with what it prepared; the clock may
\* advance between the read for the timestamp and the read for the file
\* name.
LogCall(op, w) ==
  /\ lcall.op = "none"
  /\ op = "debug" \/ lcall.data.t = "undef"
  /\ w \in {wall, wall + 1} /\ w <= Len(Instants)
  /\ lcall' = [lcall EXCEPT !.op = op, !.env = debugEnv]
  /\ lout' = LoggerResult(op, debugEnv, wall, w, lcall.context, lcall.data)
               @@ [value |-> Undefined, arg |-> Undefined]
  /\ wall' = w
  /\ UNCHANGED <<loginVars, failing, httpVars, disk, called, debugEnv>>

\* sanitizeSensitiveData applied to the prepared value
SanitizeCall ==
  /\ lcall.op = "none"
  /\ lcall' = [lcall EXCEPT !.op = "sanitize", !.env = debugEnv]
  /\ lout' = [console |-> << >>, appends |-> << >>, threw |-> "none",
              value |-> sanitizeSensitiveData(lcall.context),
              arg |-> ArgumentAfterSanitize(lcall.context)]
  /\ UNCHANGED <<loginVars, failing, httpVars, disk, called, debugEnv, wall>>

\* the call has returned; the event is not retained
Return ==
  /\ lcall.op # "none"
  /\ lcall' = NoCall
  /\ lout' = NoOutput
  /\ UNCHANGED <<loginVars, failing, httpVars, disk, called, debugEnv, wall>>

\* every file the logger can name; a file not yet created reads as empty
LogFiles == {getLogFileName(type, w) : type \in Sinks, w \in 1..Len(Instants)}

appendFileSync_truncates(content, data) == data

\* fs.appendFileSync(logFile, message + '\n', 'utf8'): one synchronous
\* write of the whole string at the end of the file
appendFileSync(content, data) == content \o data

RECURSIVE writeToFile(_, _)
\* the appends of one logger call, applied to the files in order
writeToFile(files, appends) ==
  IF appends = << >> THEN files
  ELSE writeToFile(
         [files EXCEPT ![Head(appends).file] =
            appendFileSync(files[Head(appends).file], Head(appends).text)],
         Tail(appends))

\* the operations request handlers call while requests overlap
HandlerOps == {"info", "success", "warn", "auth"}

\* the context a handler passes: whose request it is serving
RequestContext(rq) == Obj(<<KV("userId", Str(NumText(rq)))>>)

\* Request rq, one of several in flight, reaches a logger call. The call
\* is synchronous: it renders, writes the console line and appends to the
\* file before any other request's code runs.
Emit(rq, op, w) ==
  /\ lcall.op = "none"
  /\ lcall.context.t = "undef" /\ lcall.data.t = "undef"
  /\ Len(called) < MaxRecords
  /\ w \in {wall, wall + 1} /\ w <= Len(Instants)
  /\ LET out == LoggerResult(op, debugEnv, wall, w, RequestContext(rq), Undefined)
     IN /\ disk' = writeToFile(disk, out.appends)
        /\ called' = called \o [i \in 1..Len(out.appends) |->
                                  out.appends[i] @@ [by |-> rq]]
  /\ wall' = w
  /\ UNCHANGED <<loginVars, failing, httpVars, debugEnv, lcall, lout>>

\* process.env.DEBUG is set, changed or removed
SetDebug(v) ==
  /\ debugEnv # v
  /\ debugEnv' = v
  /\ UNCHANGED <<loginVars, failing, httpVars, disk, called, wall, lcall, lout>>

\* ================================== middlewares/logging.js and server.js
\* the response object before any handler has touched it
FreshResponse == [statusCode |-> 200, headers |-> {}, body |-> "", sentBy |-> "none"]

NoRequest ==
  [kind |-> "none", method |-> "", path |-> "", start |-> 0, userId |-> Undefined,
   params |-> Obj(<< >>), query |-> Obj(<< >>), status |-> 200, data |-> Undefined]

\* the ways server.js produces a response: a route that answers with
\* res.status(s).json(data), the 404 handler, the 500 handler,
\* res.sendFile for GET /, and express.static
RequestShapes ==
  {[kind |-> "json", method |-> "POST", path |-> "/login"],
   [kind |-> "notFound", method |-> "GET", path |-> "/x"],
   [kind |-> "error", method |-> "GET", path |-> "/api/alunos"],
   [kind |-> "json", method |-> "GET", path |-> "/api/contas"],
   [kind |-> "sendFile", method |-> "GET", path |-> "/"],
   [kind |-> "static", method |-> "GET", path |-> "/login.html"]}

\* what a route passes to res.status(...).json(...)
Replies ==
  {[status |-> 200, data |-> Obj(<<KV("message", Str("ok")), KV("token", Str("jwt-1"))>>)],
   [status |-> 401, data |-> Obj(<<KV("message", Str("Credenciais invalidas"))>>)]}

Queries == {Obj(<< >>), Obj(<<KV("token", Str("tok-9f"))>>)}

Users == {Undefined, Str("u1")}

\* the res.json of Express, which the middleware keeps as originalJson:
\* sets the content type when none is set and sends the serialized data
OriginalJson(r, data) ==
  [r EXCEPT !.headers = IF \E h \in @ : h[1] = "Content-Type" THEN @
                        ELSE @ \cup {<<"Content-Type", "application/json">>},
            !.body = JSONstringify(data),
            !.sentBy = "json"]

\* Object.keys(x).length > 0 ? x : undefined
NonEmptyOrUndefined(x) == IF Len(x.kv) > 0 THEN x ELSE Undefined

\* the replacement res.json that sends first and logs afterwards
WrappedJson_sendsFirst(rq, r, data, t, w) ==
  LET duration == t - rq.start
      userId == IF rq.userId.t = "undef" THEN "anonymous" ELSE rq.userId.s
      details == Obj(<<KV("params", NonEmptyOrUndefined(rq.params)),
                       KV("query", NonEmptyOrUndefined(rq.query))>>)
      out == logger_http(w, w, rq.method, rq.path, r.statusCode, duration, userId, details)
  IN [out |-> out, res |-> OriginalJson(r, data)]

\* the replacement res.json calling the original with other data
WrappedJson_logsInsteadOfData(rq, r, data, t, w) ==
  LET duration == t - rq.start
      userId == IF rq.userId.t = "undef" THEN "anonymous" ELSE rq.userId.s
      details == Obj(<<KV("params", NonEmptyOrUndefined(rq.params)),
                       KV("query", NonEmptyOrUndefined(rq.query))>>)
      out == logger_http(w, w, rq.method, rq.path, r.statusCode, duration, userId, details)
  IN [out |-> out,
      res |-> IF out.threw = "none" THEN OriginalJson(r, details) ELSE r]

\* res.json as replaced by httpLoggingMiddleware, called at time t
WrappedJson(rq, r, data, t, w) ==
  LET duration == t - rq.start
      userId == IF rq.userId.t = "undef" THEN "anonymous" ELSE rq.userId.s
      details == Obj(<<KV("params", NonEmptyOrUndefined(rq.params)),
                       KV("query", NonEmptyOrUndefined(rq.query))>>)
      out == logger_http(w, w, rq.method, rq.path, r.statusCode, duration, userId, details)
  IN [out |-> out,
      res |-> IF out.threw = "none" THEN OriginalJson(r, data) ELSE r]

\* the Error objects that reach the error handlers
NoError == [message |-> "", stack |-> ""]

\* what fs.appendFileSync throws
FsError ==
  [message |-> "ENOSPC: no space left on device, write",
   stack |-> "Error: ENOSPC: no space left on device, write at writeToFile"]

Errors ==
  {FsError,
   [message |-> "boom", stack |-> "Error: boom at routes/contas.js:41"],
   [message |-> "Unique constraint failed",
    stack |-> "PrismaClientKnownRequestError: Unique constraint failed at prisma.js:7"]}

\* one run of a hook: the error it handled, what each of its logger calls
\* wrote, the arguments of its calls of next, and whether it returned or threw
NoRun == [name |-> "none", input |-> Undefined, err |-> NoError, user |-> Undefined,
          events |-> << >>, nexts |-> << >>, outcome |-> "none"]

\* the context errorLoggingMiddleware passes to logger.error
ErrorContext(rq) ==
  LET userId == IF rq.userId.t = "undef" THEN "anonymous" ELSE rq.userId.s
  IN Obj(<<KV("userId", Str(userId)), KV("path", Str(rq.path)),
           KV("method", Str(rq.method)), KV("ip", Str("203.0.113.9"))>>)

\* the logger.error call of errorLoggingMiddleware
ErrorLogging(rq, err, w) ==
  logger_error(w, w, "[" \o rq.method \o " " \o rq.path \o "] " \o err.message,
               Str(err.stack), ErrorContext(rq))

\* the hook that logs the error and keeps it to itself
errorLoggingMiddleware_swallows(rq, err, w) ==
  LET out == ErrorLogging(rq, err, w)
  IN [name |-> "errorLoggingMiddleware", input |-> Undefined, err |-> err,
      user |-> rq.userId, events |-> <<out>>,
      nexts |-> << >>,
      outcome |-> IF out.threw = "none" THEN "returned" ELSE "threw"]

\* errorLoggingMiddleware(err, req, res, next): logger.error, then next(err);
\* an exception of logger.error leaves the hook before next is called
errorLoggingMiddleware(rq, err, w) ==
  LET out == ErrorLogging(rq, err, w)
  IN [name |-> "errorLoggingMiddleware", input |-> Undefined, err |-> err,
      user |-> rq.userId, events |-> <<out>>,
      nexts |-> IF out.threw = "none" THEN <<err>> ELSE << >>,
      outcome |-> IF out.threw = "none" THEN "returned" ELSE "threw"]

\* ------------------------------------------------- middlewares/auth.js
\* str.startsWith(prefix)
startsWith(str, prefix) ==
  Len(str) >= Len(prefix) /\ SubSeq(str, 1, Len(prefix)) = prefix

\* the positions of the separator sep (one character) in str
SeparatorsOf(str, sep) == {i \in 1..Len(str) : SubSeq(str, i, i) = sep}

\* str.split(sep)[1] for a one-character sep: the text between the first
\* and the second separator, undefined when str holds no separator
SplitSecond(str, sep) ==
  LET at == SeparatorsOf(str, sep)
  IN IF at = {} THEN Undefined
     ELSE LET first == CHOOSE i \in at : \A j \in at : i <= j
              later == {i \in at : i > first}
              stop == IF later = {} THEN Len(str) + 1
                      ELSE CHOOSE i \in later : \A j \in later : i <= j
          IN Str(SubSeq(str, first + 1, stop - 1))

\* the routes mounted behind auth: app.use('/api', auth, contasRoutes)
Protected(path) == startsWith(path, "/api/contas")

\* what a request carries in req.headers.authorization
AuthHeaders ==
  {Undefined, Str(""), Str("Basic dXNlcjpwdw=="), Str("bearer good.jwt"),
   Str("Bearer "), Str("Bearer  good.jwt"), Str("Bearer good.jwt"),
   Str("Bearer expired.jwt"), Str("Bearer not-a-jwt")}

\* jwt.verify(token, JWT_SECRET): the decoded payload, or the error thrown
jwtVerify(token) ==
  CASE token = Str("good.jwt") ->
         [ok |-> TRUE, err |-> NoError,
          decoded |-> Obj(<<KV("id", Str("u1")), KV("email", Str("ana@escola.br"))>>)]
    [] token = Str("expired.jwt") ->
         [ok |-> FALSE, decoded |-> Undefined,
          err |-> [message |-> "jwt expired", stack |-> "TokenExpiredError: jwt expired"]]
    [] token \in {Str(""), Undefined} ->
         [ok |-> FALSE, decoded |-> Undefined,
          err |-> [message |-> "jwt must be provided",
                   stack |-> "JsonWebTokenError: jwt must be provided"]]
    [] OTHER ->
         [ok |-> FALSE, decoded |-> Undefined,
          err |-> [message |-> "jwt malformed", stack |-> "JsonWebTokenError: jwt malformed"]]

\* obj[key] of an object that has the key
Field(obj, key) ==
  obj.kv[CHOOSE i \in 1..Len(obj.kv) : obj.kv[i].k = key].val

\* !authHeader || !authHeader.startsWith('Bearer ')
NoBearer(authHeader) == Falsy(authHeader) \/ ~startsWith(authHeader.s, "Bearer ")

\* the details auth passes to logger.auth
AuthDetails(rq, reason) ==
  Obj((IF reason = "" THEN << >> ELSE <<KV("reason", Str(reason))>>)
        \o <<KV("path", Str(rq.path)), KV("method", Str(rq.method))>>)

\* the gate that logs the failure and passes the request on all the same
auth_passesUnverified(rq, r, authHeader, t, w) ==
  LET v == jwtVerify(SplitSecond(authHeader.s, " "))
      verified == ~NoBearer(authHeader) /\ v.ok
      ev == IF verified
              THEN logger_auth(w, w, "token_verification", Field(v.decoded, "email").s,
                     "success", AuthDetails(rq, ""))
              ELSE logger_auth(w, w, "token_verification", "unknown", "failure",
                     AuthDetails(rq, "No token provided or invalid format"))
  IN [run |-> [name |-> "auth", input |-> authHeader, err |-> NoError,
               user |-> IF verified THEN v.decoded ELSE Undefined,
               events |-> <<ev>>, nexts |-> <<NoError>>, outcome |-> "returned"],
      res |-> r, http |-> << >>]

\* the gate that reports every verified token as a failure
auth_alwaysFailure(rq, r, authHeader, t, w) ==
  LET v == jwtVerify(SplitSecond(authHeader.s, " "))
      none == logger_auth(w, w, "token_verification", "unknown", "failure",
                AuthDetails(rq, "No token provided or invalid format"))
      good == logger_auth(w, w, "token_verification", "unknown", "failure",
                AuthDetails(rq, ""))
      run(user, err, evs, nexts, outcome) ==
        [name |-> "auth", input |-> authHeader, err |-> err, user |-> user,
         events |-> evs, nexts |-> nexts, outcome |-> outcome]
      bad(user, err, before) ==
        LET b == logger_auth(w, w, "token_verification", "unknown", "failure",
                   AuthDetails(rq, err.message))
            j == WrappedJson([rq EXCEPT !.userId = IF user.t = "undef" THEN @
                                                   ELSE Field(user, "id")],
                             [r EXCEPT !.statusCode = 401],
                             Obj(<<KV("message", Str("Token invalido ou expirado"))>>), t, w)
        IN IF b.threw # "none"
             THEN [run |-> run(user, err, before \o <<b>>, << >>, "threw"), res |-> r,
                   http |-> << >>]
             ELSE [run |-> run(user, err, before \o <<b>>, << >>,
                               IF j.out.threw = "none" THEN "returned" ELSE "threw"),
                   res |-> j.res, http |-> <<j.out>>]
  IN IF NoBearer(authHeader)
       THEN LET j == WrappedJson(rq, [r EXCEPT !.statusCode = 401],
                       Obj(<<KV("message", Str("Token nao fornecido"))>>), t, w)
            IN IF none.threw # "none"
                 THEN [run |-> run(Undefined, NoError, <<none>>, << >>, "threw"),
                       res |-> r, http |-> << >>]
                 ELSE [run |-> run(Undefined, NoError, <<none>>, << >>,
                                   IF j.out.threw = "none" THEN "returned" ELSE "threw"),
                       res |-> j.res, http |-> <<j.out>>]
       ELSE IF v.ok
         THEN IF good.threw = "none"
                THEN [run |-> run(v.decoded, NoError, <<good>>, <<NoError>>, "returned"),
                      res |-> r, http |-> << >>]
                ELSE bad(v.decoded, FsError, <<good>>)
         ELSE bad(Undefined, v.err, << >>)

\* auth(req, res, next) for the request rq with response r at time t:
\* run is what the gate did, res the response after it, http the output of
\* the logger.http call of the replaced res.json when the gate answered 401.
\* The success event is logged inside the try block, so an exception of
\* logger.auth is caught like a verification error.
auth(rq, r, authHeader, t, w) ==
  LET v == jwtVerify(SplitSecond(authHeader.s, " "))
      none == logger_auth(w, w, "token_verification", "unknown", "failure",
                AuthDetails(rq, "No token provided or invalid format"))
      good == logger_auth(w, w, "token_verification", Field(v.decoded, "email").s,
                "success", AuthDetails(rq, ""))
      run(user, err, evs, nexts, outcome) ==
        [name |-> "auth", input |-> authHeader, err |-> err, user |-> user,
         events |-> evs, nexts |-> nexts, outcome |-> outcome]
      bad(user, err, before) ==
        LET b == logger_auth(w, w, "token_verification", "unknown", "failure",
                   AuthDetails(rq, err.message))
            j == WrappedJson([rq EXCEPT !.userId = IF user.t = "undef" THEN @
                                                   ELSE Field(user, "id")],
                             [r EXCEPT !.statusCode = 401],
                             Obj(<<KV("message", Str("Token invalido ou expirado"))>>), t, w)
        IN IF b.threw # "none"
             THEN [run |-> run(user, err, before \o <<b>>, << >>, "threw"), res |-> r,
                   http |-> << >>]
             ELSE [run |-> run(user, err, before \o <<b>>, << >>,
                               IF j.out.threw = "none" THEN "returned" ELSE "threw"),
                   res |-> j.res, http |-> <<j.out>>]
  IN IF NoBearer(authHeader)
       THEN LET j == WrappedJson(rq, [r EXCEPT !.statusCode = 401],
                       Obj(<<KV("message", Str("Token nao fornecido"))>>), t, w)
            IN IF none.threw # "none"
                 THEN [run |-> run(Undefined, NoError, <<none>>, << >>, "threw"),
                       res |-> r, http |-> << >>]
                 ELSE [run |-> run(Undefined, NoError, <<none>>, << >>,
                                   IF j.out.threw = "none" THEN "returned" ELSE "threw"),
                       res |-> j.res, http |-> <<j.out>>]
       ELSE IF v.ok
         THEN IF good.threw = "none"
                THEN [run |-> run(v.decoded, NoError, <<good>>, <<NoError>>, "returned"),
                      res |-> r, http |-> << >>]
                ELSE bad(v.decoded, FsError, <<good>>)
         ELSE bad(Undefined, v.err, << >>)

\* httpLoggingMiddleware: a request enters the chain; start = Date.now(),
\* res.json is replaced, next() is called
Arrive(shape, reply, query, user) ==
  /\ hpc = "idle"
  /\ shape.kind # "json" => reply = CHOOSE x \in Replies : TRUE
  /\ Protected(shape.path) => user = Undefined
  /\ hpc' = IF Protected(shape.path) THEN "gate" ELSE "handling"
  /\ hreq' = [kind |-> shape.kind, method |-> shape.method, path |-> shape.path,
              start |-> now, userId |-> user, params |-> Obj(<< >>), query |-> query,
              status |-> CASE shape.kind = "json" -> reply.status
                           [] shape.kind = "notFound" -> 404
                           [] shape.kind = "error" -> 500
                           [] OTHER -> 200,
              data |-> CASE shape.kind = "json" -> reply.data
                         [] shape.kind = "notFound" ->
                              Obj(<<KV("error", Str("Rota nao encontrada")),
                                    KV("method", Str(shape.method)),
                                    KV("path", Str(shape.path))>>)
                         [] shape.kind = "error" ->
                              Obj(<<KV("error", Str("Algo deu errado!"))>>)
                         [] OTHER -> Undefined]
  /\ hres' = FreshResponse
  /\ htrace' = <<"httpLoggingMiddleware">>
  /\ mw' = NoRun
  /\ hlog' = << >>
  /\ UNCHANGED <<loginVars, failing, loggerVars>>

\* the request as the 500 handler of server.js answers it
AsError(rq) ==
  [rq EXCEPT !.kind = "error", !.status = 500,
             !.data = Obj(<<KV("error", Str("Algo deu errado!"))>>)]

\* The request reaches auth.  A verified token lets it on to the route; a
\* rejection is answered 401 through the replaced res.json; an exception
\* that leaves auth is handed by Express to the 500 handler.
AuthGate(authHeader) ==
  /\ hpc = "gate"
  /\ LET a == auth(hreq, hres, authHeader, now, wall)
         rq == [hreq EXCEPT !.userId = IF a.run.user.t = "undef" THEN @
                                       ELSE Field(a.run.user, "id")]
     IN /\ mw' = a.run
        /\ htrace' = htrace \o [i \in 1..Len(a.run.events) |-> "logger.auth"]
                       \o (IF a.run.nexts # << >> THEN <<"next()">> ELSE << >>)
                       \o [i \in 1..Len(a.http) |-> "logger.http"]
                       \o (IF a.res.sentBy = "json" THEN <<"originalJson">> ELSE << >>)
        /\ hres' = a.res
        /\ CASE a.run.nexts # << >> ->
                  /\ hpc' = "handling"
                  /\ hreq' = rq
             [] a.run.nexts = << >> /\ a.run.outcome = "returned" ->
                  /\ hpc' = "sent"
                  /\ hreq' = [rq EXCEPT !.status = 401,
                                        !.data = Obj(<<KV("message",
                                                   Str(IF NoBearer(authHeader)
                                                         THEN "Token nao fornecido"
                                                         ELSE "Token invalido ou expirado"))>>)]
             [] OTHER ->
                  /\ hpc' = "handling"
                  /\ hreq' = AsError(rq)
        /\ hlog' = hlog \o a.http
  /\ UNCHANGED <<loginVars, failing, loggerVars>>

\* A route handler or the 404 handler answers: res.status(s).json(data).
\* An exception of the replaced res.json leaves the handler: out of the 404
\* handler Express hands it to the 500 handler; out of a route, which is an
\* async function, it rejects a promise nobody awaits and the request is
\* left without an answer.
RespondJson ==
  /\ hpc = "handling"
  /\ hreq.kind \in {"json", "notFound"}
  /\ LET j == WrappedJson(hreq, [hres EXCEPT !.statusCode = hreq.status],
                          hreq.data, now, wall)
     IN /\ hlog' = Append(hlog, j.out)
        /\ htrace' = htrace \o <<"logger.http">>
                       \o (IF j.res.sentBy = "json" THEN <<"originalJson">> ELSE << >>)
        /\ IF j.res.sentBy = "json"
             THEN /\ hres' = j.res
                  /\ hpc' = "sent"
                  /\ UNCHANGED hreq
             ELSE /\ UNCHANGED hres
                  /\ hpc' = IF hreq.kind = "notFound" THEN "handling" ELSE "hung"
                  /\ hreq' = IF hreq.kind = "notFound" THEN AsError(hreq) ELSE hreq
  /\ UNCHANGED <<loginVars, failing, loggerVars, mw>>

\* the default handler that answers although a response has been sent
FinalHandler_answersAfterSend(r) ==
  [r EXCEPT !.statusCode = IF @ >= 400 THEN @ ELSE 500,
            !.headers = {<<"Content-Type", "text/html">>},
            !.body = "<pre>Internal Server Error</pre>",
            !.sentBy = "finalhandler"]

\* The default error handler of Express, to which next(err) leads when no
\* failure handler is left: once a response has been sent it cannot answer
\* and leaves the response as it is (it closes the connection); otherwise
\* it answers with an error page, keeping an error status already set.
FinalHandler(r) ==
  IF r.sentBy # "none" THEN r
  ELSE [r EXCEPT !.statusCode = IF @ >= 400 THEN @ ELSE 500,
                 !.headers = {<<"Content-Type", "text/html">>},
                 !.body = "<pre>Internal Server Error</pre>",
                 !.sentBy = "finalhandler"]

\* The request raised the error err, which reaches the 500 handler of
\* server.js: errorLoggingMiddleware logs and calls next(err), then
\* res.status(500).json(...).  next(err) finds no failure handler left and
\* leaves the error to the default handler of Express, which runs once
\* this handler is over.  An exception of the hook or of the replaced
\* res.json leaves the handler, and Express hands it to the default handler
\* as well.
RespondError(err) ==
  /\ hpc = "handling"
  /\ hreq.kind = "error"
  /\ LET e == errorLoggingMiddleware(hreq, err, wall)
         j == WrappedJson(hreq, [hres EXCEPT !.statusCode = 500], hreq.data, now, wall)
     IN /\ mw' = e
        /\ IF e.outcome = "threw"
             THEN /\ htrace' = htrace \o <<"logger.error">>
                  /\ UNCHANGED <<hres, hlog>>
             ELSE /\ htrace' = htrace \o <<"logger.error", "next(err)", "logger.http">>
                               \o (IF j.res.sentBy = "json"
                                     THEN <<"originalJson">> ELSE << >>)
                  /\ hres' = j.res
                  /\ hlog' = Append(hlog, j.out)
        /\ hpc' = "forwarded"
  /\ UNCHANGED <<loginVars, failing, loggerVars, hreq>>

\* the default handler of Express runs for the error it was left with
DefaultHandler ==
  /\ hpc = "forwarded"
  /\ hres' = FinalHandler(hres)
  /\ htrace' = htrace \o <<IF hres.sentBy = "none" THEN "finalhandler"
                                                   ELSE "socket.destroy">>
  /\ hpc' = "sent"
  /\ UNCHANGED <<loginVars, failing, loggerVars, hreq, mw, hlog>>

\* res.sendFile (GET /) or express.static streams a file; res.json is not
\* involved
RespondFile ==
  /\ hpc = "handling"
  /\ hreq.kind \in {"sendFile", "static"}
  /\ hres' = [hres EXCEPT !.headers = {<<"Content-Type", "text/html">>},
                          !.body = "<html>login</html>",
                          !.sentBy = hreq.kind]
  /\ htrace' = htrace \o <<hreq.kind>>
  /\ hpc' = "sent"
  /\ UNCHANGED <<loginVars, failing, loggerVars, hreq, mw, hlog>>

\* the exchange is over
Finish ==
  /\ hpc \in {"sent", "hung"}
  /\ hpc' = "idle"
  /\ hreq' = NoRequest
  /\ hres' = FreshResponse
  /\ htrace' = << >>
  /\ mw' = NoRun
  /\ hlog' = << >>
  /\ UNCHANGED <<loginVars, failing, loggerVars>>

\* ------------------------------------------------------- the attempt map
NoAttempts == [count |-> 0, lastAttempt |-> 0]

\* failedLoginAttempts.get(ip) || { count: 0, lastAttempt: 0 }
MapGet(m, ip) == IF ip \in DOMAIN m THEN m[ip] ELSE NoAttempts

MapSet(m, ip, rec) == [k \in (DOMAIN m) \cup {ip} |-> IF k = ip THEN rec ELSE m[k]]

MapDelete(m, ip) == [k \in (DOMAIN m) \ {ip} |-> m[k]]

EmptyMap == [k \in {} |-> NoAttempts]

\* Math.ceil(a / b) for b > 0
CeilDiv(a, b) == IF a % b = 0 THEN a \div b ELSE (a \div b) + 1

\* ------------------------------------------------------------- responses
NoResponse == [status |-> 0, body |-> [message |-> "none"]]

\* the exception left the handler: no response is sent by this code
Escaped == [status |-> 0, body |-> [message |-> "unhandled"]]

Json(status, body) == [status |-> status, body |-> body]

\* One step of the login route for the request in slot: op is the stretch of
\* code that ran, calls the collaborators it invoked, res what it sent,
\* removed what failedLoginAttempts.delete returned where it ran, n the
\* parity of the steps taken so far.
Step(n, slot, op, calls, res, removed) ==
  [n |-> n, slot |-> slot, op |-> op, calls |-> calls, res |-> res, removed |-> removed]

NoStep == Step(0, 0, "none", {}, NoResponse, FALSE)

\* one logger call: the sink it appends to, and whether the append threw
Ev(op, sink, msg, ctx) ==
  [op |-> op, sink |-> sink, msg |-> msg, ctx |-> ctx, threw |-> Throws(sink)]


\* ------------------------------------------- logger calls of POST /login
LoginCtx(ip) == [ip |-> ip]

\* res.json as replaced by httpLoggingMiddleware: logger.http, then the
\* original res.json
HttpEv(status) == Ev("http", "http", "POST /login", [status |-> status])

ErrorEv(ip) == Ev("error", "errors", "Erro no login", LoginCtx(ip))

\* catch (err) { logger.error(...); res.status(500).json(...) }
CatchBlock(ip) ==
  IF Throws("errors")
    THEN [events |-> <<ErrorEv(ip)>>, res |-> Escaped]
    ELSE IF Throws("http")
      THEN [events |-> <<ErrorEv(ip), HttpEv(500)>>, res |-> Escaped]
      ELSE [events |-> <<ErrorEv(ip), HttpEv(500)>>,
            res |-> Json(500, [message |-> "Erro no servidor, tente novamente"])]

\* index of the first logger call of logs whose append throws, 0 if none
FirstThrow(logs) ==
  IF \E i \in 1..Len(logs) : logs[i].threw
    THEN CHOOSE i \in 1..Len(logs) :
           logs[i].threw /\ \A j \in 1..(i - 1) : ~logs[j].threw
    ELSE 0

\* A stretch of the try block: the logger calls logs in order, then, when
\* sends, res.status(final.status).json(final.body).  A throw anywhere
\* transfers to the catch block.
TryBlock(ip, logs, sends, final) ==
  LET i == FirstThrow(logs)
      c == CatchBlock(ip)
  IN IF i > 0
       THEN [events |-> SubSeq(logs, 1, i) \o c.events, res |-> c.res, ok |-> FALSE]
       ELSE IF ~sends
         THEN [events |-> logs, res |-> NoResponse, ok |-> TRUE]
         ELSE IF Throws("http")
           THEN [events |-> logs \o <<HttpEv(final.status)>> \o c.events,
                 res |-> c.res, ok |-> FALSE]
           ELSE [events |-> logs \o <<HttpEv(final.status)>>,
                 res |-> final, ok |-> TRUE]

\* app.use((err, req, res, next) => { errorLoggingMiddleware(...);
\* res.status(500).json(...) }) reached by an error thrown in a middleware
TerminalHandler(ip) ==
  LET e == Ev("error", "errors", "[POST /login]", LoginCtx(ip))
  IN IF Throws("errors")
       THEN [events |-> <<e>>, res |-> Escaped]
       ELSE IF Throws("http")
         THEN [events |-> <<e, HttpEv(500)>>, res |-> Escaped]
         ELSE [events |-> <<e, HttpEv(500)>>,
               res |-> Json(500, [error |-> "Algo deu errado!"])]

\* ------------------------------------------------- checkLoginAttempts
\* the entry check with the threshold compared by > instead of >=
GuardCheck_offByOne(m, ip, t) ==
  LET attempts == MapGet(m, ip)
      timeRemainingMs == attempts.lastAttempt + LOGIN_BLOCK_TIME - t
      timeRemainingMinutes == CeilDiv(timeRemainingMs, MINUTE)
  IN IF attempts.count > MAX_LOGIN_ATTEMPTS
       THEN IF timeRemainingMs > 0
              THEN [blocked |-> TRUE, map |-> m, minutes |-> timeRemainingMinutes,
                    removed |-> FALSE]
              ELSE [blocked |-> FALSE, map |-> MapDelete(m, ip), minutes |-> 0,
                    removed |-> ip \in DOMAIN m]
       ELSE [blocked |-> FALSE, map |-> m, minutes |-> 0, removed |-> FALSE]

\* the entry check that rounds the remaining time down
GuardCheck_floorMinutes(m, ip, t) ==
  LET attempts == MapGet(m, ip)
      timeRemainingMs == attempts.lastAttempt + LOGIN_BLOCK_TIME - t
      timeRemainingMinutes == timeRemainingMs \div MINUTE
  IN IF attempts.count >= MAX_LOGIN_ATTEMPTS
       THEN IF timeRemainingMs > 0
              THEN [blocked |-> TRUE, map |-> m, minutes |-> timeRemainingMinutes,
                    removed |-> FALSE]
              ELSE [blocked |-> FALSE, map |-> MapDelete(m, ip), minutes |-> 0,
                    removed |-> ip \in DOMAIN m]
       ELSE [blocked |-> FALSE, map |-> m, minutes |-> 0, removed |-> FALSE]

\* the entry check that lets an expired block through but keeps its record
GuardCheck_keepsExpired(m, ip, t) ==
  LET attempts == MapGet(m, ip)
      timeRemainingMs == attempts.lastAttempt + LOGIN_BLOCK_TIME - t
      timeRemainingMinutes == CeilDiv(timeRemainingMs, MINUTE)
  IN IF attempts.count >= MAX_LOGIN_ATTEMPTS /\ timeRemainingMs > 0
       THEN [blocked |-> TRUE, map |-> m, minutes |-> timeRemainingMinutes,
             removed |-> FALSE]
       ELSE [blocked |-> FALSE, map |-> m, minutes |-> 0, removed |-> FALSE]

\* the entry check that restarts the window of a blocked IP on every
\* rejected attempt
GuardCheck_refreshesOnReject(m, ip, t) ==
  LET attempts == MapGet(m, ip)
      timeRemainingMs == attempts.lastAttempt + LOGIN_BLOCK_TIME - t
      timeRemainingMinutes == CeilDiv(timeRemainingMs, MINUTE)
  IN IF attempts.count >= MAX_LOGIN_ATTEMPTS
       THEN IF timeRemainingMs > 0
              THEN [blocked |-> TRUE,
                    map |-> MapSet(m, ip, [count |-> attempts.count, lastAttempt |-> t]),
                    minutes |-> timeRemainingMinutes, removed |-> FALSE]
              ELSE [blocked |-> FALSE, map |-> MapDelete(m, ip), minutes |-> 0,
                    removed |-> ip \in DOMAIN m]
       ELSE [blocked |-> FALSE, map |-> m, minutes |-> 0, removed |-> FALSE]

\* the decision of the entry check for ip at time t on map m
GuardCheck(m, ip, t) ==
  LET attempts == MapGet(m, ip)
      timeRemainingMs == attempts.lastAttempt + LOGIN_BLOCK_TIME - t
      timeRemainingMinutes == CeilDiv(timeRemainingMs, MINUTE)
  IN IF attempts.count >= MAX_LOGIN_ATTEMPTS
       THEN IF timeRemainingMs > 0
              THEN [blocked |-> TRUE, map |-> m, minutes |-> timeRemainingMinutes,
                    removed |-> FALSE]
              ELSE [blocked |-> FALSE, map |-> MapDelete(m, ip), minutes |-> 0,
                    removed |-> ip \in DOMAIN m]
       ELSE [blocked |-> FALSE, map |-> m, minutes |-> 0, removed |-> FALSE]

\* the failure that forgets the count on record
RecordFailure_lostUpdate(m, ip, t) ==
  MapSet(m, ip, [count |-> 1, lastAttempt |-> t])

\* the failure that is counted twice
RecordFailure_countsTwice(m, ip, t) ==
  LET attempts == MapGet(m, ip)
  IN MapSet(m, ip, [count |-> attempts.count + 2, lastAttempt |-> t])

\* the attempt map after one wrong password from ip at time t:
\* get(ip) || {0, 0}, then set(ip, {count + 1, Date.now()})
RecordFailure(m, ip, t) ==
  LET attempts == MapGet(m, ip)
  IN MapSet(m, ip, [count |-> attempts.count + 1, lastAttempt |-> t])

\* the remaining attempts computed from the count before this failure
AttemptsRemaining_beforeIncrement(attempts) == MAX_LOGIN_ATTEMPTS - attempts.count

\* MAX_LOGIN_ATTEMPTS - (attempts.count + 1), attempts being the record
\* read before the increment
AttemptsRemaining(attempts) == MAX_LOGIN_ATTEMPTS - (attempts.count + 1)

\* a success that clears the record only when the ip had reached the threshold
ClearOnSuccess_onlyWhenBlocked(m, ip) ==
  IF MapGet(m, ip).count >= MAX_LOGIN_ATTEMPTS THEN MapDelete(m, ip) ELSE m

\* the attempt map after a successful login from ip
ClearOnSuccess(m, ip) == MapDelete(m, ip)

\* --------------------------------------------------------------- actions
Init ==
  /\ now = 0
  /\ failedLoginAttempts = EmptyMap
  /\ pc = [r \in Slots |-> "idle"]
  /\ reqIp = [r \in Slots |-> CHOOSE ip \in IPs : TRUE]
  /\ last = NoStep
  /\ events = << >>
  /\ failing = {}
  /\ debugEnv = "unset"
  /\ wall = 1
  /\ lcall = NoCall
  /\ lout = NoOutput
  /\ hpc = "idle"
  /\ hreq = NoRequest
  /\ hres = FreshResponse
  /\ htrace = << >>
  /\ mw = NoRun
  /\ hlog = << >>
  /\ disk = [f \in LogFiles |-> ""]
  /\ called = << >>

\* A POST /login request arrives: checkLoginAttempts, then the handler up
\* to its first await (prisma findUnique).
Entry(r, ip, hasFields) ==
  /\ pc[r] = "idle"
  /\ LET g == GuardCheck(failedLoginAttempts, ip, now)
         blockedReply == Json(429, [message |-> "Muitas tentativas falhas",
                                     minutes |-> g.minutes])
         started == Ev("userAction", "user-actions", "login_iniciado", LoginCtx(ip))
         missing == Ev("warn", "warnings", "Login: Campos obrigatorios faltando",
                       LoginCtx(ip))
         t == IF hasFields
                THEN TryBlock(ip, <<started>>, FALSE, NoResponse)
                ELSE TryBlock(ip, <<started, missing>>, TRUE,
                              Json(400, [message |-> "E-mail e senha sao obrigatorios"]))
         h == TerminalHandler(ip)
         n == 1 - last.n
     IN /\ failedLoginAttempts' = g.map
        /\ reqIp' = [reqIp EXCEPT ![r] = ip]
        /\ IF g.blocked
             THEN /\ UNCHANGED pc
                  /\ IF Throws("http")
                       THEN /\ events' = <<HttpEv(429)>> \o h.events
                            /\ last' = Step(n, r, "entry", {}, h.res, g.removed)
                       ELSE /\ events' = <<HttpEv(429)>>
                            /\ last' = Step(n, r, "entry", {}, blockedReply, g.removed)
             ELSE /\ events' = t.events
                  /\ IF hasFields /\ t.ok
                       THEN /\ pc' = [pc EXCEPT ![r] = "lookup"]
                            /\ last' = Step(n, r, "entry", {"findUnique"}, t.res, g.removed)
                       ELSE /\ UNCHANGED pc
                            /\ last' = Step(n, r, "entry", {}, t.res, g.removed)
  /\ UNCHANGED <<now, failing, loggerVars, httpVars>>

\* prisma findUnique settles: no user -> 401; a user -> bcrypt.compare is
\* started; a rejection -> catch block.
Lookup(r, found) ==
  /\ pc[r] = "lookup"
  /\ LET ip == reqIp[r]
         notFound == Ev("warn", "warnings", "Login: Usuario nao encontrado", LoginCtx(ip))
         t == TryBlock(ip, <<notFound>>, TRUE,
                       Json(401, [message |-> "Credenciais invalidas"]))
         c == CatchBlock(ip)
         n == 1 - last.n
     IN CASE found = "user" ->
               /\ pc' = [pc EXCEPT ![r] = "compare"]
               /\ last' = Step(n, r, "lookup", {"bcrypt.compare"}, NoResponse, FALSE)
               /\ events' = << >>
          [] found = "none" ->
               /\ pc' = [pc EXCEPT ![r] = "idle"]
               /\ last' = Step(n, r, "lookup", {}, t.res, FALSE)
               /\ events' = t.events
          [] OTHER ->
               /\ pc' = [pc EXCEPT ![r] = "idle"]
               /\ last' = Step(n, r, "lookup", {}, c.res, FALSE)
               /\ events' = c.events
  /\ UNCHANGED <<now, failedLoginAttempts, reqIp, failing, loggerVars, httpVars>>

\* bcrypt.compare settles.
Compare(r, isPasswordValid) ==
  /\ pc[r] = "compare"
  /\ LET ip == reqIp[r]
         attempts == MapGet(failedLoginAttempts, ip)
         wrong == Ev("warn", "warnings", "Login: Senha invalida",
                     [ip |-> ip, tentativasRestantes |-> AttemptsRemaining(attempts)])
         bad == TryBlock(ip, <<wrong>>, TRUE,
                         Json(401, [message |-> "Credenciais invalidas",
                                    attemptsRemaining |-> AttemptsRemaining(attempts)]))
         okLog == Ev("success", "general", "Login realizado com sucesso", LoginCtx(ip))
         okAct == Ev("userAction", "user-actions", "login_concluido", LoginCtx(ip))
         good == TryBlock(ip, <<okLog, okAct>>, TRUE,
                          Json(200, [message |-> "Login realizado com sucesso"]))
         n == 1 - last.n
     IN IF ~isPasswordValid
          THEN /\ failedLoginAttempts' = RecordFailure(failedLoginAttempts, ip, now)
               /\ last' = Step(n, r, "compare", {}, bad.res, FALSE)
               /\ events' = bad.events
          ELSE /\ failedLoginAttempts' = ClearOnSuccess(failedLoginAttempts, ip)
               /\ last' = Step(n, r, "compare", {"jwt.sign"}, good.res,
                               ip \in DOMAIN failedLoginAttempts)
               /\ events' = good.events
  /\ pc' = [pc EXCEPT ![r] = "idle"]
  /\ UNCHANGED <<now, reqIp, failing, loggerVars, httpVars>>

\* the clock advances
Tick ==
  /\ now < MaxTime
  /\ now' = now + 1
  /\ UNCHANGED <<failedLoginAttempts, pc, reqIp, last, events, failing, loggerVars, httpVars>>

Next ==
  \/ \E r \in Slots, ip \in IPs, hasFields \in BOOLEAN : Entry(r, ip, hasFields)
  \/ \E r \in Slots, found \in {"user", "none", "error"} : Lookup(r, found)
  \/ \E r \in Slots, v \in BOOLEAN : Compare(r, v)
  \/ Tick

Spec == Init /\ [][Next]_vars


\* durable-sink failures come and go (disk full, permissions, missing path)
FaultSets == {{}, {"http"}, {"warnings"}, {"errors", "warnings"}}

SinkFault(S) ==
  /\ failing # S
  /\ failing' = S
  /\ UNCHANGED <<loginVars, loggerVars, httpVars>>

NextFault ==
  \/ Next
  \/ \E S \in FaultSets : SinkFault(S)

SpecFault == Init /\ [][NextFault]_vars

\* ======================================================== login guard
\* the step is one of the login route, taken for the request in slot r
StepOf(r) == last'.n # last.n /\ last'.slot = r

\* r's request runs checkLoginAttempts in this step
EntryStep(r) == StepOf(r) /\ last'.op = "entry"

\* r's bcrypt.compare settles with a wrong password in this step
FailureStep(r) == StepOf(r) /\ last'.op = "compare" /\ "jwt.sign" \notin last'.calls

\* r's bcrypt.compare settles with the right password in this step
SuccessStep(r) == StepOf(r) /\ last'.op = "compare" /\ "jwt.sign" \in last'.calls

HasRecord(ip) == ip \in DOMAIN failedLoginAttempts

\* C1: a request that reaches the entry check while its IP has at least
\* MAX_LOGIN_ATTEMPTS failures and now < lastAttempt + LOGIN_BLOCK_TIME is
\* answered 429, and neither the user lookup nor the password comparison is
\* run for it.
C1_BlockedIsRejected ==
  [][\A r \in Slots :
       (/\ EntryStep(r)
        /\ MapGet(failedLoginAttempts, reqIp'[r]).count >= MAX_LOGIN_ATTEMPTS
        /\ now < MapGet(failedLoginAttempts, reqIp'[r]).lastAttempt + LOGIN_BLOCK_TIME)
       => (/\ last'.res.status = 429
           /\ pc'[r] = "idle"
           /\ last'.calls = {})]_vars

\* the latest step rejected a request of an IP that is still blocked
C1_Witness ==
  /\ last.op = "entry" /\ last.res.status = 429 /\ last.calls = {}
  /\ pc[last.slot] = "idle"
  /\ HasRecord(reqIp[last.slot])
  /\ failedLoginAttempts[reqIp[last.slot]].count = MAX_LOGIN_ATTEMPTS
  /\ now < failedLoginAttempts[reqIp[last.slot]].lastAttempt + LOGIN_BLOCK_TIME

\* C2: with MAX_LOGIN_ATTEMPTS failures on record, an entry check that runs
\* later than lastAttempt + LOGIN_BLOCK_TIME lets the request through to
\* credential validation and discards the record; one that runs earlier
\* rejects the request.
C2_ExpiryAtEntryCheck ==
  [][\A r \in Slots :
       (EntryStep(r) /\ MapGet(failedLoginAttempts, reqIp'[r]).count >= MAX_LOGIN_ATTEMPTS)
       => LET ip == reqIp'[r]
              deadline == failedLoginAttempts[ip].lastAttempt + LOGIN_BLOCK_TIME
          IN /\ now > deadline =>
                  /\ last'.res.status # 429
                  /\ pc'[r] = "lookup" \/ last'.res.status = 400
                  /\ pc'[r] = "lookup" => "findUnique" \in last'.calls
                  /\ ip \notin DOMAIN failedLoginAttempts'
             /\ now < deadline =>
                  /\ last'.res.status = 429
                  /\ last'.calls = {}
                  /\ pc'[r] = "idle"
                  /\ failedLoginAttempts' = failedLoginAttempts]_vars

\* the latest step's entry check removed an expired record and started the
\* user lookup
C2_Witness ==
  /\ last.op = "entry" /\ last.removed /\ last.calls = {"findUnique"}
  /\ pc[last.slot] = "lookup"
  /\ now > LOGIN_BLOCK_TIME
  /\ ~HasRecord(reqIp[last.slot])

\* C3: a successful login leaves no record for its IP, whatever the count
\* was, and the next failure of that IP yields count 1.
C3_SuccessClears ==
  [][\A r \in Slots :
       /\ SuccessStep(r) => reqIp[r] \notin DOMAIN failedLoginAttempts'
       /\ (FailureStep(r) /\ ~HasRecord(reqIp[r]))
            => failedLoginAttempts'[reqIp[r]].count = 1]_vars

\* the latest step answered a success and removed the failures its IP had
\* on record
C3_Witness ==
  /\ last.op = "compare" /\ last.res.status = 200 /\ last.removed
  /\ ~HasRecord(reqIp[last.slot])

\* C4: every request answered 401 "invalid credentials" (unknown e-mail or
\* wrong password) raises its IP's count by exactly 1 and sets lastAttempt
\* to the current time.
C4_Every401Counts ==
  [][\A r \in Slots :
       (StepOf(r) /\ last'.op \in {"lookup", "compare"} /\ last'.res.status = 401)
       => /\ reqIp[r] \in DOMAIN failedLoginAttempts'
          /\ failedLoginAttempts'[reqIp[r]] =
               [count |-> MapGet(failedLoginAttempts, reqIp[r]).count + 1,
                lastAttempt |-> now]]_vars

\* C5: a failure recorded more than LOGIN_BLOCK_TIME after the previous one
\* starts a fresh count: count = 1 and attemptsRemaining = MAX - 1.
C5_StaleRecordStartsFresh ==
  [][\A r \in Slots :
       (/\ FailureStep(r) /\ last'.res.status = 401
        /\ HasRecord(reqIp[r])
        /\ now > failedLoginAttempts[reqIp[r]].lastAttempt + LOGIN_BLOCK_TIME)
       => /\ failedLoginAttempts'[reqIp[r]].count = 1
          /\ last'.res.body.attemptsRemaining = MAX_LOGIN_ATTEMPTS - 1]_vars


\* ============================================================== logger
NextLogger ==
  \/ \E i \in 1..Len(CtxEntries) : Prepare(i)
  \/ \E d \in NonMappings : PrepareValue(d)
  \/ \E d \in DebugData : PrepareData(d)
  \/ \E op \in LoggerOps, w \in 1..Len(Instants) : LogCall(op, w)
  \/ SanitizeCall
  \/ Return
  \/ \E v \in {"true", "false"} : SetDebug(v)

SpecLogger == Init /\ [][NextLogger]_vars

\* the eight fragments of the redaction policy
PolicyFragments ==
  {"password", "token", "authorization", "secret", "api_key", "creditCard",
   "cpf", "phone"}

\* key contains fragment, compared case-insensitively
ContainsIgnoringCase(key, fragment) ==
  includes(toLowerCase(key), toLowerCase(fragment))

\* C6: sanitize replaces by the marker the value of every top-level key
\* that contains, compared case-insensitively, one of the eight fragments.
C6_AllFragmentsRedacted ==
  (lcall.op = "sanitize" /\ lcall.context.t = "obj")
  => \A i \in 1..Len(lcall.context.kv) :
       (\E f \in PolicyFragments : ContainsIgnoringCase(lcall.context.kv[i].k, f))
       => /\ lout.value.kv[i].k = lcall.context.kv[i].k
          /\ lout.value.kv[i].val = Str(REDACTED)

\* the mapping arguments the latest logger call rendered
RenderedMappings ==
  {m \in {lcall.context, lcall.data} : m.t = "obj" /\ Len(m.kv) > 0}

\* C7: every logger operation formats only the sanitized copy of each
\* mapping argument (context, details, debug's data): the console text and
\* the appended text carry the serialized sanitized copy, never the
\* serialized original, and never an original value that sanitize replaces.
C7_OnlySanitizedIsRendered ==
  (lcall.op \in LoggerOps /\ Len(lout.console) > 0)
  => /\ Len(lout.console) = 1 /\ Len(lout.appends) = 1
     /\ \A m \in RenderedMappings :
          LET sm == sanitizeSensitiveData(m)
          IN \A text \in {lout.console[1], lout.appends[1].text} :
               /\ includes(text, JSONstringify(sm))
               /\ sm # m => ~includes(text, JSONstringify(m))
               /\ \A i \in 1..Len(m.kv) :
                    (sm.kv[i].val # m.kv[i].val /\ m.kv[i].val.t = "str")
                    => ~includes(text, m.kv[i].val.s)

\* logger.debug has written a record whose data and context both held a
\* key that sanitize replaces
C7_Witness ==
  /\ lcall.op = "debug" /\ lcall.env = "true"
  /\ lcall.data.t = "obj" /\ \E i \in 1..Len(lcall.data.kv) : lcall.data.kv[i].k = "password"
  /\ \E i \in 1..Len(lcall.context.kv) : lcall.context.kv[i].k = "userPassword"
  /\ Len(lout.appends) = 1
  /\ includes(lout.appends[1].text, REDACTED)
  /\ ~includes(lout.appends[1].text, "hunter2")


\* ============================================== HTTP instrumentation
NextHttp ==
  \/ \E shape \in RequestShapes, reply \in Replies, query \in Queries, user \in Users :
       Arrive(shape, reply, query, user)
  \/ \E authHeader \in AuthHeaders : AuthGate(authHeader)
  \/ RespondJson
  \/ \E err \in Errors : RespondError(err)
  \/ DefaultHandler
  \/ RespondFile
  \/ Finish
  \/ Tick

SpecHttp == Init /\ [][NextHttp]_vars

\* the number of HTTP-category events emitted for the exchange
HttpEventCount == Len(SelectSeq(htrace, LAMBDA x : x = "logger.http"))

\* C8: every request that passes through httpLoggingMiddleware and gets a
\* response has exactly one HTTP-category event, whichever path produced
\* the response (route res.json, 404 handler, 500 handler, res.sendFile,
\* static files).
C8_OneHttpEventPerRequest ==
  hpc = "sent" => HttpEventCount = 1

\* C9: a response sent through the replaced res.json has the status,
\* headers and body the original res.json produces for the same response
\* object and the same data.
C9_WrapperLeavesResponseAlone ==
  (hpc = "sent" /\ hres.sentBy = "json")
  => hres = OriginalJson([FreshResponse EXCEPT !.statusCode = hreq.status], hreq.data)

\* a 401 reply with a query string has gone out through the replaced res.json
C9_Witness ==
  /\ hpc = "sent" /\ hres.sentBy = "json" /\ hreq.kind = "json"
  /\ hres.statusCode = 401 /\ Len(hreq.query.kv) > 0
  /\ includes(hres.body, "Credenciais invalidas")
  /\ HttpEventCount = 1

\* ============================================ logging failures (login)
\* C10: for a request the guard does not reject, the response is the same
\* whether the logging calls made while handling it succeed or fail: a
\* request whose fields are missing gets 400, one whose e-mail is unknown
\* 401, one whose lookup fails 500, one whose password was compared 401 or
\* 200.
C10_LoggingNeverChangesResponse ==
  [][\A r \in Slots :
       /\ (StepOf(r) /\ last'.op = "compare") => last'.res.status \in {200, 401}
       /\ (StepOf(r) /\ last'.op = "lookup" /\ pc'[r] = "idle")
            => last'.res.status \in {401, 500}
       /\ (StepOf(r) /\ last'.op = "entry" /\ pc'[r] = "idle"
             /\ ~GuardCheck(failedLoginAttempts, reqIp'[r], now).blocked)
            => last'.res.status = 400]_vars

\* ===================================================== error hook
\* the exchanges of server.js while the errors and warnings sinks come and go
NextHook ==
  \/ NextHttp
  \/ \E S \in {{}, {"errors", "warnings"}, {"auth"}} : SinkFault(S)

SpecHook == Init /\ [][NextHook]_vars

\* C11: a run of errorLoggingMiddleware that returns has made exactly one
\* ERROR event (one console write, one append to the errors file) whose text
\* carries '[METHOD PATH] <err.message>', err's stack and the context
\* {userId or 'anonymous', path, method, ip}, and has called next exactly
\* once, with the error it was given; a run that calls next not at all is
\* one that logger.error left by an exception.
C11_ErrorIsLoggedAndForwarded ==
  mw.name = "errorLoggingMiddleware"
  => /\ Len(mw.events) = 1
     /\ Len(mw.nexts) <= 1
     /\ \A i \in 1..Len(mw.nexts) : mw.nexts[i] = mw.err
     /\ mw.outcome = "returned"
          => /\ mw.nexts = <<mw.err>>
             /\ Len(mw.events[1].console) = 1
             /\ Len(mw.events[1].appends) = 1
             /\ includes(mw.events[1].appends[1].file, "logs/errors-")
             /\ \A text \in {mw.events[1].console[1], mw.events[1].appends[1].text} :
                  /\ includes(text, "[ERROR] [" \o hreq.method \o " " \o hreq.path \o "] "
                                      \o mw.err.message \o " ")
                  /\ includes(text, "\n  Stack: " \o mw.err.stack)
                  /\ includes(text, "\n  Context: " \o JSONstringify(ErrorContext(hreq)))
     /\ mw.outcome # "returned"
          => /\ mw.outcome = "threw"
             /\ mw.events[1].threw = "appendFileSync"

\* the hook has logged and forwarded the error of an authenticated request
C11_Witness ==
  /\ mw.name = "errorLoggingMiddleware" /\ mw.outcome = "returned"
  /\ mw.err.message = "Unique constraint failed"
  /\ mw.nexts = <<mw.err>>
  /\ hreq.userId = Str("u1")
  /\ includes(mw.events[1].appends[1].text, "\"userId\":\"u1\"")
  /\ "next(err)" \in {htrace[i] : i \in 1..Len(htrace)}

\* ======================================================== auth gate
\* the text of the AUTH event with the given identifier, result and details
AuthText(identifier, result, details) ==
  "[AUTH] Action: token_verification | Identifier: " \o identifier
    \o " | Result: " \o result \o " | Details: " \o JSONstringify(details)

\* C12: each pass through the auth gate makes exactly one AUTH event with
\* action 'token_verification' (one console write, one append to the auth
\* file): failure / 'unknown' with the fixed reason when the header is
\* absent or does not start with 'Bearer '; success with the e-mail of the
\* decoded token when it verifies; failure / 'unknown' with the message of
\* the verification error as reason otherwise.  The result is 'success'
\* exactly when the token verified.
C12_OneAuthEventPerPass ==
  mw.name = "auth"
  => LET v == jwtVerify(SplitSecond(mw.input.s, " "))
         verified == ~NoBearer(mw.input) /\ v.ok
         expected ==
           IF NoBearer(mw.input)
             THEN AuthText("unknown", "failure",
                           AuthDetails(hreq, "No token provided or invalid format"))
             ELSE IF v.ok
               THEN AuthText(Field(v.decoded, "email").s, "success", AuthDetails(hreq, ""))
               ELSE AuthText("unknown", "failure", AuthDetails(hreq, v.err.message))
     IN /\ Len(mw.events) = 1
        /\ Len(mw.events[1].console) = 1
        /\ Len(mw.events[1].appends) = 1
        /\ includes(mw.events[1].appends[1].file, "logs/auth-")
        /\ \A text \in {mw.events[1].console[1], mw.events[1].appends[1].text} :
             /\ includes(text, expected)
             /\ includes(text, "Result: success") <=> verified

\* a request with a verified token has passed the gate and been logged as
\* a success under the token's e-mail
C12_Witness ==
  /\ mw.name = "auth" /\ mw.input = Str("Bearer good.jwt")
  /\ mw.nexts = <<NoError>>
  /\ hpc = "handling" /\ hreq.userId = Str("u1")
  /\ includes(mw.events[1].appends[1].text, "Identifier: ana@escola.br | Result: success")

\* ================================================ logger: writes per call
\* the latest call was logger.debug made while process.env.DEBUG was not 'true'
DebugDisabled == lcall.op = "debug" /\ lcall.env # "true"

\* C13: every call of a non-DEBUG logger operation makes exactly one
\* console write and exactly one append; a call of logger.debug makes none
\* of either when DEBUG is not enabled at the call, one of each when it is.
C13_OneWritePerCall ==
  lcall.op \in LoggerOps
  => IF DebugDisabled
       THEN lout.console = << >> /\ lout.appends = << >>
       ELSE Len(lout.console) = 1 /\ Len(lout.appends) = 1

\* ================================================ logger: files
\* the file keyword of each operation's category
CategoryKeyword ==
  [error |-> "errors", warn |-> "warnings", info |-> "general", success |-> "general",
   debug |-> "debug", userAction |-> "user-actions", http |-> "http", auth |-> "auth",
   database |-> "database"]

\* the YYYY-MM-DD part of a file name logs/<keyword>-YYYY-MM-DD.log
DateOfFile(file) == SubSeq(file, Len(file) - 13, Len(file) - 4)

\* the keyword part of a file name logs/<keyword>-YYYY-MM-DD.log
KeywordOfFile(file) == SubSeq(file, 6, Len(file) - 15)

\* C14: every append of a logger operation goes to the file whose keyword
\* is the one of the operation's category (INFO and SUCCESS -> general,
\* ERROR -> errors, WARN -> warnings, AUTH -> auth, USER_ACTION ->
\* user-actions, HTTP -> http, DATABASE -> database, DEBUG -> debug), and to
\* no other file.
C14_CategoryFixesFile ==
  lcall.op \in LoggerOps
  => \A i \in 1..Len(lout.appends) :
       /\ KeywordOfFile(lout.appends[i].file) = CategoryKeyword[lcall.op]
       /\ SubSeq(lout.appends[i].file, 1, 5) = "logs/"
       /\ SubSeq(lout.appends[i].file, Len(lout.appends[i].file) - 3,
                 Len(lout.appends[i].file)) = ".log"

\* logger.success has appended a record to the general file
C14_Witness ==
  /\ lcall.op = "success"
  /\ Len(lout.appends) = 1
  /\ lout.appends[1].file = "logs/general-2026-02-08.log"
  /\ includes(lout.appends[1].text, "[SUCCESS] Feito")

\* ================================================ logger: file dates
\* the day of February 2026 and the minute of that day, in UTC, of each of
\* the Instants
InstantClock == <<[day |-> 7, minute |-> 1439], [day |-> 8, minute |-> 0]>>

MinutesPerDay == 24 * 60

\* offsets of the host's time zone, in minutes east of UTC (America/Sao_Paulo,
\* UTC, Asia/Tokyo)
ZoneOffsets == {-180, 0, 540}

\* the local calendar date of instant w on a host at the given offset
LocalDate(w, offset) ==
  LET m == InstantClock[w].minute + offset
      day == InstantClock[w].day + (IF m < 0 THEN -1 ELSE IF m >= MinutesPerDay THEN 1 ELSE 0)
  IN "2026-02-0" \o NumText(day)

\* C15: the date in the name of the file a record is appended to is the
\* local calendar date at the moment of the write, whatever the host's
\* time-zone offset (so the file changes at local midnight, and only then).
C15_FileDateIsLocalDate ==
  (lcall.op \in LoggerOps /\ Len(lout.appends) = 1)
  => \A offset \in ZoneOffsets :
       DateOfFile(lout.appends[1].file) = LocalDate(wall, offset)

\* ================================================ logger: failed appends
\* the logger operations while the sinks come and go
NextLoggerFault ==
  \/ NextLogger
  \/ \E S \in {{}, {"errors", "http", "debug"}, Sinks} : SinkFault(S)

SpecLoggerFault == Init /\ [][NextLoggerFault]_vars

\* the call made in this step gets as far as its writes: it is not a
\* logger.debug with DEBUG not 'true', and building its message does not throw
ReachesWrites(op) ==
  /\ ~(op = "debug" /\ debugEnv # "true")
  /\ ~ObjectKeysThrows(sanitizeSensitiveData(Default(lcall.context, Obj(<< >>))))

\* C16: a logger operation whose append fails ends by the exception of
\* appendFileSync, which reaches the call site, after its one console write
\* has been made and with nothing appended; and an operation that gets as
\* far as its writes returns normally only with its record appended.
C16_AppendFailurePropagates ==
  [][\A op \in LoggerOps :
       (lcall.op = "none" /\ lcall'.op = op)
       => /\ (ReachesWrites(op) /\ Throws(CategoryKeyword[op]))
               => /\ lout'.threw = "appendFileSync"
                  /\ Len(lout'.console) = 1
                  /\ lout'.appends = << >>
          /\ (ReachesWrites(op) /\ lout'.threw = "none")
               => /\ Len(lout'.appends) = 1
                  /\ ~Throws(CategoryKeyword[op])]_vars

\* logger.error has thrown the append failure after writing to the console
C16_Witness ==
  /\ lcall.op = "error"
  /\ lout.threw = "appendFileSync"
  /\ Len(lout.console) = 1 /\ includes(lout.console[1], "[ERROR] Falha")
  /\ lout.appends = << >>

\* ================================================ logger: odd contexts
\* C17: a context passed as null (or one that cannot be serialized) never
\* makes a logger operation throw: the operation completes with one console
\* write and one append.
C17_NullContextIsTolerated ==
  (lcall.op \in LoggerOps /\ lcall.context = Null /\ ~DebugDisabled)
  => /\ lout.threw = "none"
     /\ Len(lout.console) = 1
     /\ Len(lout.appends) = 1

\* ============================================ login guard: overlapping
\* the step changes the attempt map on behalf of some request
MapStep ==
  \E r \in Slots :
    \/ FailureStep(r)
    \/ SuccessStep(r)
    \/ EntryStep(r) /\ last'.removed

\* C18: a wrong password raises the count its IP has at that very step by
\* exactly 1, however many other requests of the IP are in flight, and no
\* step other than a wrong password, a success or an expiry touches the
\* map: k overlapping failures leave the count k higher.
C18_NoLostIncrement ==
  [][/\ \A r \in Slots :
          FailureStep(r)
          => failedLoginAttempts'[reqIp[r]] =
               [count |-> MapGet(failedLoginAttempts, reqIp[r]).count + 1,
                lastAttempt |-> now]
     /\ ~MapStep => failedLoginAttempts' = failedLoginAttempts]_vars

\* a second failure of the IP has just been counted while another request
\* of the same IP is still waiting for its password comparison
C18_Witness ==
  /\ last.op = "compare" /\ last.res.status = 401
  /\ \E q \in Slots :
       q # last.slot /\ pc[q] = "compare" /\ reqIp[q] = reqIp[last.slot]
  /\ HasRecord(reqIp[last.slot])
  /\ failedLoginAttempts[reqIp[last.slot]].count = 2

\* ============================================ login guard: what is left
\* C20: on a failure that is counted, tentativasRestantes of the WARN event
\* and attemptsRemaining of the 401 response are equal, and equal to
\* MAX_LOGIN_ATTEMPTS minus the count stored for the IP by this failure.
C20_RemainingMatchesStoredCount ==
  [][\A r \in Slots :
       FailureStep(r)
       => LET left == MAX_LOGIN_ATTEMPTS - failedLoginAttempts'[reqIp[r]].count
          IN /\ last'.res.status = 401
             /\ last'.res.body.attemptsRemaining = left
             /\ Len(events') >= 1
             /\ events'[1].op = "warn"
             /\ events'[1].ctx.tentativasRestantes = left]_vars

\* a failure counted past the threshold has reported a negative remainder
C20_Witness ==
  /\ last.op = "compare" /\ last.res.status = 401
  /\ last.res.body.attemptsRemaining = -1
  /\ events[1].op = "warn" /\ events[1].ctx.tentativasRestantes = -1
  /\ failedLoginAttempts[reqIp[last.slot]].count = MAX_LOGIN_ATTEMPTS + 1

\* ============================================ HTTP event before response
\* the exchanges of server.js while the http sink comes and goes
NextSend ==
  \/ NextHttp
  \/ \E S \in {{}, {"http"}} : SinkFault(S)

SpecSend == Init /\ [][NextSend]_vars

\* C19: whenever a response leaves through the replaced res.json, the
\* logger.http call for it has completed first (console write and append to
\* the http file made, original res.json invoked only after it), its record
\* carries the status the response is sent with and, as duration, the clock
\* at that moment minus the clock at the entry into httpLoggingMiddleware.
C19_RecordPrecedesResponse ==
  [][(hres.sentBy # "json" /\ hres'.sentBy = "json")
     => /\ Len(hlog') = Len(hlog) + 1
        /\ LET out == hlog'[Len(hlog')]
               n == Len(htrace')
           IN /\ out.threw = "none"
              /\ Len(out.console) = 1 /\ Len(out.appends) = 1
              /\ KeywordOfFile(out.appends[1].file) = "http"
              /\ \A text \in {out.console[1], out.appends[1].text} :
                   includes(text, "[HTTP] " \o hreq'.method \o " " \o hreq'.path
                                    \o " | Status: " \o NumText(hres'.statusCode)
                                    \o " | Duration: " \o NumText(now - hreq.start) \o "ms")
              /\ n >= 2 /\ htrace'[n - 1] = "logger.http" /\ htrace'[n] = "originalJson"]_vars

\* the 404 handler has answered GET /x some time after the request came in
C19_Witness ==
  /\ hpc = "sent" /\ hres.sentBy = "json" /\ hres.statusCode = 404
  /\ hreq.path = "/x" /\ now - hreq.start >= 2
  /\ Len(hlog) = 1
  /\ includes(hlog[1].appends[1].text, "GET /x | Status: 404 | Duration: ")

\* ============================================ login guard: reported wait
\* C21: every 429 of the entry check reports the remaining time
\* lastAttempt + LOGIN_BLOCK_TIME - now rounded up to whole minutes; with
\* the block time of 5 minutes the value is between 1 and 5.
C21_WaitIsRoundedUp ==
  [][\A r \in Slots :
       (EntryStep(r) /\ last'.res.status = 429)
       => LET left == MapGet(failedLoginAttempts, reqIp'[r]).lastAttempt
                        + LOGIN_BLOCK_TIME - now
              minutes == last'.res.body.minutes
          IN /\ minutes * MINUTE >= left
             /\ (minutes - 1) * MINUTE < left
             /\ minutes >= 1
             /\ minutes <= 5]_vars

\* a request rejected with less than a minute of the block left is told to
\* wait 1 minute
C21_Witness ==
  /\ last.op = "entry" /\ last.res.status = 429
  /\ last.res.body.minutes = 1
  /\ HasRecord(reqIp[last.slot])
  /\ failedLoginAttempts[reqIp[last.slot]].lastAttempt + LOGIN_BLOCK_TIME - now = 1

\* ============================================ sanitize: what it leaves
\* the key matches one of the fragments of the redaction policy
MatchesPolicy(key) == \E f \in PolicyFragments : ContainsIgnoringCase(key, f)

C23_NonMappingsComeBack ==
  (lcall.op = "sanitize" /\ lcall.context.t # "obj")
  => /\ lout.threw = "none"
     /\ lout.value = lcall.context

\* ------------------------------------------- overlapping requests that log
NextDisk ==
  \E rq \in Slots, op \in HandlerOps, w \in 1..Len(Instants) : Emit(rq, op, w)

SpecDisk == Init /\ [][NextDisk]_vars

RECURSIVE RecordsOf(_, _)
\* the texts appended to file f, joined in the order of their calls
RecordsOf(f, calls) ==
  IF calls = << >> THEN ""
  ELSE (IF Head(calls).file = f THEN Head(calls).text ELSE "")
         \o RecordsOf(f, Tail(calls))

Added == SubSeq(htrace', Len(htrace) + 1, Len(htrace'))

\* the positions of entry e in a trace
PositionsOf(e, trace) == {i \in 1..Len(trace) : trace[i] = e}

\* C25: in the auth gate the AUTH event comes before control is passed on.
\* When the token verifies, req.user is set and next() is called exactly
\* once, after the success event, and the gate sends no response.  When the
\* header is missing or malformed or the verification fails, next() is
\* never called and a single 401 response is sent after the failure event.
\* So the business logic behind the gate only ever runs for a request with
\* a verified token.
C25_GateLogsThenPassesOrRejects ==
  [][/\ (hpc = "gate" /\ hpc' # "gate")
        => LET verified == /\ ~NoBearer(mw'.input)
                           /\ jwtVerify(SplitSecond(mw'.input.s, " ")).ok
               text == mw'.events[1].appends[1].text
           IN /\ mw'.name = "auth"
              /\ Len(mw'.events) = 1
              /\ Added[1] = "logger.auth"
              /\ PositionsOf("logger.auth", Added) = {1}
              /\ IF verified
                   THEN /\ includes(text, "Result: success")
                        /\ mw'.user.t = "obj"
                        /\ hreq'.userId = Field(mw'.user, "id")
                        /\ Len(mw'.nexts) = 1
                        /\ Added = <<"logger.auth", "next()">>
                        /\ hres' = hres /\ hres'.sentBy = "none"
                        /\ hpc' = "handling"
                   ELSE /\ includes(text, "Result: failure")
                        /\ mw'.user = Undefined
                        /\ mw'.nexts = << >>
                        /\ PositionsOf("next()", Added) = {}
                        /\ Cardinality(PositionsOf("originalJson", Added)) = 1
                        /\ Added[Len(Added)] = "originalJson"
                        /\ hres'.sentBy = "json" /\ hres'.statusCode = 401
                        /\ hpc' = "sent"
     /\ (Protected(hreq'.path) /\ hpc' = "handling")
        => /\ mw'.name = "auth" /\ mw'.user.t = "obj"
           /\ jwtVerify(SplitSecond(mw'.input.s, " ")).ok]_vars

\* a request with an expired token has been logged as a failure and then
\* answered 401 by the gate, which did not call next()
C25_Witness ==
  /\ mw.name = "auth" /\ mw.input = Str("Bearer expired.jwt")
  /\ mw.nexts = << >>
  /\ hpc = "sent" /\ hres.statusCode = 401
  /\ includes(mw.events[1].appends[1].text, "Result: failure")
  /\ htrace[Len(htrace)] = "originalJson"

\* ================================== login throttle: requests in flight
\* ip's record holds the threshold or more and its window has not elapsed
InsideBlock(m, ip, t) ==
  /\ MapGet(m, ip).count >= MAX_LOGIN_ATTEMPTS
  /\ t < MapGet(m, ip).lastAttempt + LOGIN_BLOCK_TIME

\* C26: across any interleaving of overlapping login requests from one IP,
\* once the IP's record holds MAX_LOGIN_ATTEMPTS failures or more inside
\* the block window, no password comparison is performed for that IP until
\* the window has elapsed or the record is cleared, requests that passed
\* the entry check earlier and are still in flight included.
C26_NoComparisonWhileBlocked ==
  [][\A r \in Slots :
       (StepOf(r) /\ "bcrypt.compare" \in last'.calls)
       => ~InsideBlock(failedLoginAttempts, reqIp[r], now)]_vars

\* ============================== login throttle: rejected requests
\* r's request is answered with the given status by the entry check or by
\* the handler before its first await
RejectedAtEntry(r, status) == EntryStep(r) /\ last'.res.status = status

\* C27 as stated: a login request rejected at the entry check (429) or for
\* a missing e-mail or password (400) leaves the attempt map unchanged for
\* every IP.
C27_RejectedLeavesMapUnchanged ==
  [][\A r \in Slots :
       (RejectedAtEntry(r, 429) \/ RejectedAtEntry(r, 400))
       => failedLoginAttempts' = failedLoginAttempts]_vars

\* C27, amended: a request answered 429 leaves the attempt map unchanged
\* for every IP.  A request answered 400 leaves it unchanged too, except
\* that its own IP's record is discarded when that record was a block whose
\* window had elapsed.  Neither changes the count or the time of last
\* failure of any record, so a block ends LOGIN_BLOCK_TIME after the last
\* recorded failure however many attempts are rejected meanwhile.
C27_RejectedOnlyDiscardsExpired ==
  [][\A r \in Slots :
       /\ RejectedAtEntry(r, 429)
            => /\ failedLoginAttempts' = failedLoginAttempts
               /\ InsideBlock(failedLoginAttempts', reqIp'[r], now)
       /\ RejectedAtEntry(r, 400)
            => \/ failedLoginAttempts' = failedLoginAttempts
               \/ /\ MapGet(failedLoginAttempts, reqIp'[r]).count >= MAX_LOGIN_ATTEMPTS
                  /\ now >= MapGet(failedLoginAttempts, reqIp'[r]).lastAttempt
                              + LOGIN_BLOCK_TIME
                  /\ failedLoginAttempts' = MapDelete(failedLoginAttempts, reqIp'[r])
       /\ (RejectedAtEntry(r, 429) \/ RejectedAtEntry(r, 400))
            => \A ip \in DOMAIN failedLoginAttempts' :
                 /\ ip \in DOMAIN failedLoginAttempts
                 /\ failedLoginAttempts'[ip] = failedLoginAttempts[ip]]_vars

\* a request without its fields has been answered 400 after the entry
\* check discarded the elapsed block of its IP
C27_Witness ==
  /\ last.op = "entry" /\ last.res.status = 400
  /\ last.removed
  /\ ~HasRecord(reqIp[last.slot])

\* ===================================== the 500 handler and next(err)
\* how often entry e occurs in the trace of the exchange
Occurrences(e) == Cardinality(PositionsOf(e, htrace))

DateOfRecord(text) == SubSeq(text, 2, 11)

\* C29: every record is appended to the file whose date is the date part
\* of the record's own timestamp, also when the logger call straddles a
\* day boundary.
C29_FileDateIsRecordDate ==
  (lcall.op \in LoggerOps /\ Len(lout.appends) = 1)
  => DateOfFile(lout.appends[1].file) = DateOfRecord(lout.appends[1].text)

\* ================================== login throttle: one request at a time
\* a POST /login request arrives while no other login request is in flight
EntryAlone(r, ip, hasFields) ==
  /\ \A q \in Slots : pc[q] = "idle"
  /\ Entry(r, ip, hasFields)

\* the login requests are processed one after another
NextSequential ==
  \/ \E r \in Slots, ip \in IPs, hasFields \in BOOLEAN : EntryAlone(r, ip, hasFields)
  \/ \E r \in Slots, found \in {"user", "none", "error"} : Lookup(r, found)
  \/ \E r \in Slots, v \in BOOLEAN : Compare(r, v)
  \/ Tick

SpecSequential == Init /\ [][NextSequential]_vars

\* C30: when the login requests of an IP are processed one after another,
\* the count on its record never exceeds MAX_LOGIN_ATTEMPTS, and the
\* remaining attempts reported in the 401 response and in the WARN event
\* are never negative.
C30_SequentialCountIsBounded ==
  /\ \A q, r \in Slots : (pc[q] # "idle" /\ pc[r] # "idle") => q = r
  /\ \A ip \in DOMAIN failedLoginAttempts :
       /\ failedLoginAttempts[ip].count >= 1
       /\ failedLoginAttempts[ip].count <= MAX_LOGIN_ATTEMPTS
  /\ (last.op = "compare" /\ last.res.status = 401)
       => /\ last.res.body.attemptsRemaining >= 0
          /\ last.res.body.attemptsRemaining
               = MAX_LOGIN_ATTEMPTS - failedLoginAttempts[reqIp[last.slot]].count
          /\ events[1].op = "warn"
          /\ events[1].ctx.tentativasRestantes >= 0

\* the fifth failure in a row of an IP has reported no attempt left
C30_Witness ==
  /\ last.op = "compare" /\ last.res.status = 401
  /\ last.res.body.attemptsRemaining = 0
  /\ events[1].ctx.tentativasRestantes = 0
  /\ failedLoginAttempts[reqIp[last.slot]].count = MAX_LOGIN_ATTEMPTS
  /\ \A q \in Slots : pc[q] = "idle"

====
